---- MODULE Spec2Model ----
(***************************************************************************)
(* Resistive_Touch_Screen: edge detector for a 4-wire resistive touch      *)
(* panel (newScreenTap / isTouching) and the resistance-to-pixel mapping   *)
(* (mapTouchToScreen), modelled from src/Resistive_Touch_Screen.{h,cpp}.   *)
(*                                                                         *)
(* Target of the library is a 32-bit Arduino core (Feather M4): int and    *)
(* long are 32 bits wide, the point fields are int16_t, the configuration  *)
(* fields are uint16_t.                                                    *)
(***************************************************************************)
EXTENDS Integers, Sequences, FiniteSets, TLC

----------------------------------------------------------------------------
(* Integer widths *)

Int16Min == -32768
Int16Max == 32767
Uint16Max == 65535
LongMax == 2147483647
LongMin == -LongMax - 1

\* conversion to int16_t (assignment to a TSPoint field)
ToInt16(v) == ((v + 32768) % 65536) - 32768

\* conversion to uint16_t
ToUint16(v) == v % 65536

Abs(v) == IF v < 0 THEN -v ELSE v

\* C++ integer division truncates toward zero; b # 0, and not LongMin / -1
TruncDivPos(a, b) ==
  IF a >= 0 THEN a \div b
  ELSE IF a % b = 0 THEN a \div b ELSE (a \div b) + 1

TruncDiv(a, b) == IF b > 0 THEN TruncDivPos(a, b) ELSE -TruncDivPos(a, -b)

\* The product a * b in a 32-bit long, for |a| < 2^17 and |b| < 2^16 (the
\* operands of map() below).  The magnitude is built in two 16-bit limbs so
\* that products wider than 32 bits are represented exactly; v is the
\* two's-complement low 32 bits of the product, ovf tells that the
\* mathematical product does not fit in a long (signed overflow).
Mul32(a, b) ==
  LET ma  == Abs(a)
      mb  == Abs(b)
      neg == (a < 0) # (b < 0)
      t1  == (ma \div 256) * mb
      t0  == (ma % 256) * mb
      s   == (t1 % 256) * 256 + t0
      lo  == s % 65536
      hi  == (t1 \div 256) + (s \div 65536)
      zero == hi = 0 /\ lo = 0
      wlo == IF neg /\ lo # 0 THEN 65536 - lo ELSE lo
      whi == IF ~neg THEN hi % 65536
             ELSE IF lo = 0 THEN (65536 - (hi % 65536)) % 65536
             ELSE 65535 - (hi % 65536)
      shi == IF whi >= 32768 THEN whi - 65536 ELSE whi
  IN [v   |-> shi * 65536 + wlo,
      ovf |-> IF neg /\ ~zero THEN hi > 32768 \/ (hi = 32768 /\ lo > 0)
              ELSE hi >= 32768]

----------------------------------------------------------------------------
(* Bounded input sets *)

\* pairs of analogRead() values <<z1, z2>> fed to the pressure() call of
\* isTouching(), z1 from X- and z2 from Y+: they give the pressures 0, 50,
\* 100, 200 and 1023 (below, at and between the default thresholds, above)
PressureReadings ==
  {<<0, 1023>>, <<50, 1023>>, <<100, 1023>>, <<200, 1023>>, <<0, 0>>}

\* pairs of analogRead() values fed to the pressure() call that fills
\* touchOhms.z: they give the pressures 0 and 1023
ZReadings == {<<0, 1023>>, <<0, 0>>}

\* pairs of analogRead() values <<ax, ay>> fed to readTouchX(), readTouchY()
AxisReadings == {<<123, 923>>, <<923, 523>>}

\* orientation arguments: landscape, flipped landscape, and one other value
Orientations == {1, 3, 2}

\* arguments given to setThreshhold(): the defaults, and a misordered pair
ThresholdChoices == {<<200, 50>>, <<50, 200>>}

\* arguments given to setScreenSize()
ScreenSizeChoices == {<<320, 240>>, <<480, 320>>}

\* arguments given to setResistanceRange(): the defaults, and the readings
\* quoted in mapTouchToScreen
CalibrationChoices ==
  {<<100, 900, 100, 900, 310>>, <<160, 876, 110, 892, 200>>}

\* cap of the history counters hist.trues and hist.runTrues
MaxTrues == 2

----------------------------------------------------------------------------
(* State *)

VARIABLES
  _width, _height,                                \* screen pixels
  _x_min_ohms, _x_max_ohms,                       \* expected X-axis readings
  _y_min_ohms, _y_max_ohms,                       \* expected Y-axis readings
  _start_touch_pressure, _stop_touch_pressure,    \* hysteresis thresholds
  _rx,                                            \* X+ to X- resistance
  button_state,     \* static local of isTouching()
  gTouching,        \* static local of newScreenTap()
  screen,           \* the caller's ScreenPoint handed to newScreenTap()
  call,             \* what the last operation did (observation)
  hist,             \* history of the newScreenTap() calls (observation)
  pins              \* mode and written level of the four panel pins

config == <<_width, _height, _x_min_ohms, _x_max_ohms, _y_min_ohms,
            _y_max_ohms, _start_touch_pressure, _stop_touch_pressure, _rx>>

vars == <<config, button_state, gTouching, screen, call, hist, pins>>

----------------------------------------------------------------------------
(* Defaults of the configuration fields (Resistive_Touch_Screen.h) *)

DefaultWidth == 320
DefaultHeight == 240
DefaultXMinOhms == 100
DefaultXMaxOhms == 900
DefaultYMinOhms == 100
DefaultYMaxOhms == 900
DefaultStartTouchPressure == 200
DefaultStopTouchPressure == 50

\* rx argument of the constructor in the example usage (XP_XM_OHMS)
ConstructorRx == 310

\* _rx is declared uint8_t: the constructor and setResistanceRange() narrow
\* their uint16_t argument
ToUint8(v) == v % 256

PressPoint(x0, y0, z0) == [x |-> x0, y |-> y0, z |-> z0]
ScreenPoint(x0, y0, z0) == [x |-> x0, y |-> y0, z |-> z0]

----------------------------------------------------------------------------
(* Pressure Sampler *)

\* readTouchX() subtracting from the full scale of the converter
readTouchX_fullScale(a) == 1024 - a

\* readTouchX(): 1023 - analogRead(Y+)
readTouchX(a) == 1023 - a

\* readTouchY(): 1023 - analogRead(X-)
readTouchY(a) == 1023 - a

\* pressure() returning the mean of the two readings
pressure_average(z1, z2) == ToUint16((z1 + z2) \div 2)

\* pressure(): z1 = analogRead(X-), z2 = analogRead(Y+)
pressure(z1, z2) == ToUint16(1023 - (z2 - z1))

\* pins read by analogRead(), in order, by each measurement
PressureReads == <<"XM", "YP">>
TouchXReads == <<"YP">>
TouchYReads == <<"XM">>

\* the four pins: X+, X-, Y+, Y-
PinNames == {"XP", "XM", "YP", "YM"}

\* a pin: its mode and the level last written to it
Pin(mode, level) == [mode |-> mode, level |-> level]

\* after reset every pin is an input and nothing was written; the
\* constructor stores the pin numbers and configures nothing
PinsAtReset == [n \in PinNames |-> Pin("INPUT", "LOW")]

\* pinMode(pin, mode) and digitalWrite(pin, val) on the pin state p
pinMode(p, pin, mode) == [p EXCEPT ![pin].mode = mode]
digitalWrite(p, pin, val) == [p EXCEPT ![pin].level = val]

\* the pin state at the analogRead() of readTouchX(), entered with p
readTouchXPins(p) ==
  LET p1 == pinMode(p, "YP", "INPUT")
      p2 == pinMode(p1, "YM", "INPUT")
      p3 == digitalWrite(p2, "YP", "LOW")
      p4 == digitalWrite(p3, "YM", "LOW")
      p5 == pinMode(p4, "XP", "OUTPUT")
      p6 == digitalWrite(p5, "XP", "HIGH")
      p7 == pinMode(p6, "XM", "OUTPUT")
  IN digitalWrite(p7, "XM", "LOW")

\* the pin state at the analogRead() of readTouchY(), entered with p
readTouchYPins(p) ==
  LET p1 == pinMode(p, "XP", "INPUT")
      p2 == pinMode(p1, "XM", "INPUT")
      p3 == digitalWrite(p2, "XP", "LOW")
      p4 == digitalWrite(p3, "XM", "LOW")
      p5 == pinMode(p4, "YP", "OUTPUT")
      p6 == digitalWrite(p5, "YP", "HIGH")
      p7 == pinMode(p6, "YM", "OUTPUT")
  IN digitalWrite(p7, "YM", "LOW")

\* pressure() switching X- and Y+ to inputs without writing them low
pressurePins_noClear(p) ==
  LET p1 == pinMode(p, "XP", "OUTPUT")
      p2 == digitalWrite(p1, "XP", "LOW")
      p3 == pinMode(p2, "YM", "OUTPUT")
      p4 == digitalWrite(p3, "YM", "HIGH")
      p5 == pinMode(p4, "XM", "INPUT")
  IN pinMode(p5, "YP", "INPUT")

\* the pin state at the two analogRead() of pressure(), entered with p
pressurePins(p) ==
  LET p1 == pinMode(p, "XP", "OUTPUT")
      p2 == digitalWrite(p1, "XP", "LOW")
      p3 == pinMode(p2, "YM", "OUTPUT")
      p4 == digitalWrite(p3, "YM", "HIGH")
      p5 == digitalWrite(p4, "XM", "LOW")
      p6 == pinMode(p5, "XM", "INPUT")
      p7 == digitalWrite(p6, "YP", "LOW")
  IN pinMode(p7, "YP", "INPUT")

\* the pin state after the measurements of one newScreenTap() call, which
\* begin with the pressure() of isTouching() and, when more analog reads
\* follow, go on with readTouchX(), readTouchY() and pressure()
tapPins(p, reads) ==
  IF Len(reads) > Len(PressureReads)
  THEN pressurePins(readTouchYPins(readTouchXPins(pressurePins(p))))
  ELSE pressurePins(p)

----------------------------------------------------------------------------
(* Touch State Machine *)

\* isTouching() releasing below the start threshold: no hysteresis band
isTouching_releaseAtStart(bs, pres_val) ==
  LET pressed == IF (bs = FALSE) /\ (pres_val > _start_touch_pressure)
                 THEN TRUE ELSE bs
  IN IF (pressed = TRUE) /\ (pres_val < _start_touch_pressure)
     THEN FALSE ELSE pressed

\* isTouching() with the press comparison turned round
isTouching_inverted(bs, pres_val) ==
  LET pressed == IF (bs = FALSE) /\ (pres_val < _start_touch_pressure)
                 THEN TRUE ELSE bs
  IN IF (pressed = TRUE) /\ (pres_val < _stop_touch_pressure)
     THEN FALSE ELSE pressed

\* isTouching() without the release test
isTouching_noRelease(bs, pres_val) ==
  IF (bs = FALSE) /\ (pres_val > _start_touch_pressure) THEN TRUE ELSE bs

\* isTouching() with non-strict comparisons
isTouching_nonStrict(bs, pres_val) ==
  LET pressed == IF (bs = FALSE) /\ (pres_val >= _start_touch_pressure)
                 THEN TRUE ELSE bs
  IN IF (pressed = TRUE) /\ (pres_val <= _stop_touch_pressure)
     THEN FALSE ELSE pressed

\* isTouching() with the release test in an else branch of the press test
isTouching_elseIf(bs, pres_val) ==
  IF (bs = FALSE) /\ (pres_val > _start_touch_pressure)
  THEN TRUE
  ELSE IF (bs = TRUE) /\ (pres_val < _stop_touch_pressure)
  THEN FALSE ELSE bs

\* isTouching(): the value of button_state after the call (also the value
\* returned), from its value bs before the call and the sample pres_val
isTouching(bs, pres_val) ==
  LET pressed == IF (bs = FALSE) /\ (pres_val > _start_touch_pressure)
                 THEN TRUE ELSE bs
  IN IF (pressed = TRUE) /\ (pres_val < _stop_touch_pressure)
     THEN FALSE ELSE pressed

----------------------------------------------------------------------------
(* Coordinate Mapper *)

\* results a signed overflow of the multiplication can leave in the long:
\* the wrapped product of the target's MUL instruction, or either extreme
OverflowOutcomes(v) == {v, LongMin, LongMax}

\* results an integer division by zero can leave in the long (the target's
\* SDIV yields 0 with the trap disabled, a software divide yields all ones)
DivZeroOutcomes == {0, -1}

\* map() dividing by in_min - in_max: the sign of the slope is lost
map_signError(x, in_min, in_max, out_min, out_max) ==
  LET prod == Mul32(x - in_min, out_max - out_min)
      den  == in_min - in_max
  IN IF den = 0 THEN {[v |-> q, ub |-> {"divzero"}] : q \in DivZeroOutcomes}
     ELSE IF prod.v = LongMin /\ den = -1 THEN {[v |-> LongMin, ub |-> {"overflow"}]}
     ELSE {[v |-> TruncDiv(prod.v, den) + out_min,
            ub |-> IF prod.ovf THEN {"overflow"} ELSE {}]}

\* Arduino map(x, in_min, in_max, out_min, out_max) on long:
\*   (x - in_min) * (out_max - out_min) / (in_max - in_min) + out_min
\* The set of possible results v, each with the undefined operations ub
\* that were executed to get it.
map(x, in_min, in_max, out_min, out_max) ==
  LET prod  == Mul32(x - in_min, out_max - out_min)
      den   == in_max - in_min
      prods == IF prod.ovf
               THEN {[v |-> w, ub |-> {"overflow"}] : w \in OverflowOutcomes(prod.v)}
               ELSE {[v |-> prod.v, ub |-> {}]}
      Quot(pr) ==
        IF den = 0
        THEN {[v |-> q, ub |-> pr.ub \cup {"divzero"}] : q \in DivZeroOutcomes}
        ELSE IF pr.v = LongMin /\ den = -1
        THEN {[v |-> LongMin, ub |-> pr.ub \cup {"overflow"}]}
        ELSE {[v |-> TruncDiv(pr.v, den), ub |-> pr.ub]}
  IN UNION {{[v |-> q.v + out_min, ub |-> q.ub] : q \in Quot(pr)} : pr \in prods}

\* constrain() without the lower limit
constrain_noLow(amt, low, high) == IF amt > high THEN high ELSE amt

\* Arduino macro constrain(amt, low, high)
constrain(amt, low, high) ==
  IF amt < low THEN low ELSE IF amt > high THEN high ELSE amt

\* Arduino random(howsmall, howbig): some value in howsmall .. howbig-1, or
\* howsmall when the range is empty; the two extreme values are drawn
random(howsmall, howbig) ==
  IF howsmall >= howbig THEN {howsmall} ELSE {howsmall, howbig - 1}

\* the switch of mapTouchToScreen(): the possible values of *screenCoord
\* before the final constrain, as stored in its int16_t fields
mapSwitch(touchOhms, orientation) ==
  CASE orientation = 1 ->
         {[x |-> ToInt16(mx.v), y |-> ToInt16(my.v), z |-> touchOhms.z,
           ub |-> mx.ub \cup my.ub] :
            mx \in map(touchOhms.y, _y_min_ohms, _y_max_ohms, 0, _width),
            my \in map(touchOhms.x, _x_max_ohms, _x_min_ohms, 0, _height)}
    [] orientation = 3 ->
         {[x |-> ToInt16(mx.v), y |-> ToInt16(my.v), z |-> touchOhms.z,
           ub |-> mx.ub \cup my.ub] :
            mx \in map(touchOhms.y, _x_max_ohms, _x_min_ohms, 0, _width),
            my \in map(touchOhms.x, _y_min_ohms, _y_max_ohms, 0, _height)}
    [] OTHER ->
         {[x |-> ToInt16(rx), y |-> ToInt16(ry), z |-> touchOhms.z, ub |-> {}] :
            rx \in random(0, _width), ry \in random(0, _height)}

\* mapTouchToScreen() leaving the function at the end of the default branch
mapTouchToScreen_defaultReturns(touchOhms, orientation) ==
  {[x  |-> IF orientation \in {1, 3} THEN ToInt16(constrain(m.x, 0, _width)) ELSE m.x,
    y  |-> IF orientation \in {1, 3} THEN ToInt16(constrain(m.y, 0, _height)) ELSE m.y,
    z  |-> m.z,
    ub |-> m.ub] : m \in mapSwitch(touchOhms, orientation)}

\* mapTouchToScreen() constraining z like y
mapTouchToScreen_clampsZ(touchOhms, orientation) ==
  {[x  |-> ToInt16(constrain(m.x, 0, _width)),
    y  |-> ToInt16(constrain(m.y, 0, _height)),
    z  |-> ToInt16(constrain(m.z, 0, _height)),
    ub |-> m.ub] : m \in mapSwitch(touchOhms, orientation)}

\* mapTouchToScreen(): the possible values of *screenCoord after the call,
\* each with the undefined operations executed on the way
mapTouchToScreen(touchOhms, orientation) ==
  {[x  |-> ToInt16(constrain(m.x, 0, _width)),
    y  |-> ToInt16(constrain(m.y, 0, _height)),
    z  |-> m.z,
    ub |-> m.ub] : m \in mapSwitch(touchOhms, orientation)}

----------------------------------------------------------------------------
(* newScreenTap *)

NoPoint == PressPoint(0, 0, 0)

\* outcome of a call that reports no new touch: *screen is not assigned and
\* only isTouching() has sampled the panel
quietTap(touching, nowbs, old, pres_val) ==
  {[gTouching    |-> touching,
    button_state |-> nowbs,
    result       |-> FALSE,
    screen       |-> old,
    wrote        |-> FALSE,
    pres_val     |-> pres_val,
    touchOhms    |-> NoPoint,
    reads        |-> PressureReads,
    ub           |-> {}]}

\* outcomes of a call that maps touchOhms into *screen and returns result,
\* after the measurements measured have followed isTouching()
mappedTap(touching, nowbs, result, pres_val, touchOhms, orientation, measured) ==
  {[gTouching    |-> touching,
    button_state |-> nowbs,
    result       |-> result,
    screen       |-> ScreenPoint(m.x, m.y, m.z),
    wrote        |-> TRUE,
    pres_val     |-> pres_val,
    touchOhms    |-> touchOhms,
    reads        |-> PressureReads \o measured,
    ub           |-> m.ub] : m \in mapTouchToScreen(touchOhms, orientation)}

\* newScreenTap() mapping the point on every call that finds the panel
\* touched, with the X, Y and pressure measurements that go with it
newScreenTap_level(touching, bs, old, orientation, z1, z2, ax, ay, z1b, z2b) ==
  LET pres_val == pressure(z1, z2)
      nowbs    == isTouching(bs, pres_val)
  IN IF nowbs
     THEN mappedTap(TRUE, nowbs, ~touching, pres_val,
                    PressPoint(ToInt16(readTouchX(ax)), ToInt16(readTouchY(ay)),
                               ToInt16(pressure(z1b, z2b))),
                    orientation, TouchXReads \o TouchYReads \o PressureReads)
     ELSE quietTap(FALSE, nowbs, old, pres_val)

\* newScreenTap() taking the point the way getPoint() does, with three
\* pressure() samples
newScreenTap_median(touching, bs, old, orientation, z1, z2, ax, ay, z1b, z2b) ==
  LET pres_val == pressure(z1, z2)
      nowbs    == isTouching(bs, pres_val)
  IN IF touching
     THEN quietTap(IF ~nowbs THEN FALSE ELSE touching, nowbs, old, pres_val)
     ELSE IF nowbs
     THEN mappedTap(TRUE, nowbs, TRUE, pres_val,
                    PressPoint(ToInt16(readTouchX(ax)), ToInt16(readTouchY(ay)),
                               ToInt16(pressure(z1b, z2b))),
                    orientation,
                    TouchXReads \o TouchYReads \o PressureReads \o PressureReads
                      \o PressureReads)
     ELSE quietTap(touching, nowbs, old, pres_val)

\* newScreenTap() that never clears gTouching once it is set
newScreenTap_latched(touching, bs, old, orientation, z1, z2, ax, ay, z1b, z2b) ==
  LET pres_val == pressure(z1, z2)
      nowbs    == isTouching(bs, pres_val)
  IN IF touching
     THEN quietTap(touching, nowbs, old, pres_val)
     ELSE IF nowbs
     THEN mappedTap(TRUE, nowbs, TRUE, pres_val,
                    PressPoint(ToInt16(readTouchX(ax)), ToInt16(readTouchY(ay)),
                               ToInt16(pressure(z1b, z2b))),
                    orientation, TouchXReads \o TouchYReads \o PressureReads)
     ELSE quietTap(touching, nowbs, old, pres_val)

\* The possible outcomes of one newScreenTap(screen, orientation) call that
\* starts with the statics (touching, bs) and the caller's point old.
\*   z1, z2   analog readings of the pressure() call inside isTouching()
\*   ax, ay   analog readings of readTouchX(), readTouchY()
\*   z1b, z2b analog readings of the pressure() call that fills touchOhms.z
\* The last four are read only on the not touching ==> touching transition.
newScreenTap(touching, bs, old, orientation, z1, z2, ax, ay, z1b, z2b) ==
  LET pres_val == pressure(z1, z2)
      nowbs    == isTouching(bs, pres_val)
  IN IF touching
     THEN quietTap(IF ~nowbs THEN FALSE ELSE touching, nowbs, old, pres_val)
     ELSE IF nowbs
     THEN mappedTap(TRUE, nowbs, TRUE, pres_val,
                    PressPoint(ToInt16(readTouchX(ax)), ToInt16(readTouchY(ay)),
                               ToInt16(pressure(z1b, z2b))),
                    orientation, TouchXReads \o TouchYReads \o PressureReads)
     ELSE quietTap(touching, nowbs, old, pres_val)

\* history of the calls, kept to state the edge-detector claims:
\*   lastResult  what the previous newScreenTap call returned
\*   trues       calls that returned true so far (counted up to MaxTrues)
\*   lowSince    a call after the last one that returned true sampled a
\*               pressure < _stop_touch_pressure
\*   runTrues    calls that returned true in the current run of consecutive
\*               calls whose samples were all > _start_touch_pressure
\*               (counted up to MaxTrues)
\*   runOrdered  every call of that run was made with start >= stop
\*   peerOwn     the touch state a second instance would be in had its own
\*               newScreenTap calls alone set it
histAfter(h, r, pres_val) ==
  LET inRun == pres_val > _start_touch_pressure
  IN [lastResult |-> r,
      trues      |-> IF r /\ h.trues < MaxTrues THEN h.trues + 1 ELSE h.trues,
      lowSince   |-> IF r THEN FALSE
                     ELSE h.lowSince \/ (h.trues > 0 /\ pres_val < _stop_touch_pressure),
      runTrues   |-> IF ~inRun THEN 0
                     ELSE IF r /\ h.runTrues < MaxTrues THEN h.runTrues + 1
                     ELSE h.runTrues,
      runOrdered |-> IF ~inRun THEN TRUE
                     ELSE h.runOrdered /\ _start_touch_pressure >= _stop_touch_pressure,
      peerOwn    |-> h.peerOwn]

HistInit == [lastResult |-> FALSE, trues |-> 0, lowSince |-> FALSE,
             runTrues |-> 0, runOrdered |-> TRUE, peerOwn |-> FALSE]

\* the observation of an operation that is not a newScreenTap call; of a
\* newScreenTap call the observation holds the state at entry (wasTouching),
\* the value returned (result), whether *screen was assigned (wrote), the
\* sample taken by isTouching() (pres_val), the pins read (reads) and, when
\* the mapper ran, its arguments (touchOhms, orientation)
OtherCall(name) ==
  [op |-> name, orientation |-> 0, result |-> FALSE, wasTouching |-> FALSE,
   wrote |-> FALSE, pres_val |-> 0,
   touchOhms |-> NoPoint, reads |-> <<>>, ub |-> {}, fails |-> {}, actuals |-> <<>>]

TapWith(orientation, z1, z2, ax, ay, z1b, z2b) ==
  \E out \in newScreenTap(gTouching, button_state, screen, orientation,
                          z1, z2, ax, ay, z1b, z2b) :
    /\ gTouching' = out.gTouching
    /\ button_state' = out.button_state
    /\ screen' = out.screen
    /\ call' = [op |-> "newScreenTap",
                orientation |-> IF out.result THEN orientation ELSE 0,
                result |-> out.result, wasTouching |-> gTouching,
                wrote |-> out.wrote, pres_val |-> out.pres_val,
                touchOhms |-> out.touchOhms, reads |-> out.reads,
                ub |-> out.ub, fails |-> {}, actuals |-> <<>>]
    /\ hist' = histAfter(hist, out.result, out.pres_val)
    /\ pins' = tapPins(pins, out.reads)
    /\ UNCHANGED config

\* a call that finds no new touch consumes the two pressure readings only
TapQuiet(orientation, z1, z2) ==
  /\ \A out \in newScreenTap(gTouching, button_state, screen, orientation,
                             z1, z2, 0, 0, 0, 0) : ~out.result
  /\ TapWith(orientation, z1, z2, 0, 0, 0, 0)

\* a call that finds a new touch goes on to read X, Y and the pressure again
TapEvent(orientation, z1, z2) ==
  /\ \E out \in newScreenTap(gTouching, button_state, screen, orientation,
                             z1, z2, 0, 0, 0, 0) : out.result
  /\ \E a \in AxisReadings : \E zb \in ZReadings :
       TapWith(orientation, z1, z2, a[1], a[2], zb[1], zb[2])

NewScreenTap ==
  \E orientation \in Orientations : \E z \in PressureReadings :
    TapQuiet(orientation, z[1], z[2]) \/ TapEvent(orientation, z[1], z[2])

----------------------------------------------------------------------------
(* Setters *)

statics == <<button_state, gTouching>>

setResistanceRange(x_min, x_max, y_min, y_max, xp_xm) ==
  /\ _x_min_ohms' = x_min
  /\ _x_max_ohms' = x_max
  /\ _y_min_ohms' = y_min
  /\ _y_max_ohms' = y_max
  /\ _rx' = ToUint8(xp_xm)
  /\ call' = OtherCall("setResistanceRange")
  /\ UNCHANGED <<_width, _height, _start_touch_pressure, _stop_touch_pressure,
                 statics, screen, hist, pins>>

\* setScreenSize() that also starts a new touch session
setScreenSize_resetsTouch(x_max, y_max) ==
  /\ _width' = x_max
  /\ _height' = y_max
  /\ button_state' = FALSE
  /\ gTouching' = FALSE
  /\ call' = OtherCall("setScreenSize")
  /\ UNCHANGED <<_x_min_ohms, _x_max_ohms, _y_min_ohms, _y_max_ohms, _rx,
                 _start_touch_pressure, _stop_touch_pressure, screen, hist, pins>>

setScreenSize(x_max, y_max) ==
  /\ _width' = x_max
  /\ _height' = y_max
  /\ call' = OtherCall("setScreenSize")
  /\ UNCHANGED <<_x_min_ohms, _x_max_ohms, _y_min_ohms, _y_max_ohms, _rx,
                 _start_touch_pressure, _stop_touch_pressure, statics, screen, hist, pins>>

setThreshhold(start_ohms, stop_ohms) ==
  /\ _start_touch_pressure' = start_ohms
  /\ _stop_touch_pressure' = stop_ohms
  /\ call' = OtherCall("setThreshhold")
  /\ UNCHANGED <<_width, _height, _x_min_ohms, _x_max_ohms, _y_min_ohms,
                 _y_max_ohms, _rx, statics, screen, hist, pins>>

SetResistanceRange ==
  \E c \in CalibrationChoices : setResistanceRange(c[1], c[2], c[3], c[4], c[5])

SetScreenSize == \E c \in ScreenSizeChoices : setScreenSize(c[1], c[2])

SetThreshhold == \E c \in ThresholdChoices : setThreshhold(c[1], c[2])

----------------------------------------------------------------------------
(* unit_test *)

\* the validateTouch() calls of unit_test(), in order
UnitTestCases ==
  LET lowerLeft  == ScreenPoint(0, 240, 900)
      lowerRight == ScreenPoint(320, 240, 900)
      upperLeft  == ScreenPoint(0, 0, 900)
      upperRight == ScreenPoint(320, 0, 900)
      center     == ScreenPoint(320 \div 2, 240 \div 2, 900)
      p00 == PressPoint(100, 100, 900)
      p01 == PressPoint(100, 900, 900)
      p10 == PressPoint(900, 100, 900)
      p11 == PressPoint(900, 900, 900)
      pc  == PressPoint((900 + 100) \div 2, (900 + 100) \div 2, 900)
  IN << [p |-> p00, expected |-> lowerLeft,  o |-> 1],
        [p |-> p01, expected |-> lowerRight, o |-> 1],
        [p |-> p10, expected |-> upperLeft,  o |-> 1],
        [p |-> p11, expected |-> upperRight, o |-> 1],
        [p |-> pc,  expected |-> center,     o |-> 1],
        [p |-> p00, expected |-> upperRight, o |-> 3],
        [p |-> p01, expected |-> upperLeft,  o |-> 3],
        [p |-> p10, expected |-> lowerRight, o |-> 3],
        [p |-> p11, expected |-> lowerLeft,  o |-> 3] >>

\* validateTouch(p, expected, o), as test number i: the possible outcomes,
\* with the "Fail:" lines printed (one for x, one for y)
validateTouch(i, p, expected, o) ==
  {[actual |-> ScreenPoint(m.x, m.y, m.z),
    fails  |-> {<<i, "x">> : k \in {1} \cap (IF m.x # expected.x THEN {1} ELSE {})}
               \cup {<<i, "y">> : k \in {1} \cap (IF m.y # expected.y THEN {1} ELSE {})},
    ub     |-> m.ub] : m \in mapTouchToScreen(p, o)}

\* unit_test(): the outcomes of the first n validateTouch() calls
RECURSIVE unit_test(_)
unit_test(n) ==
  IF n = 0 THEN {[actuals |-> <<>>, fails |-> {}, ub |-> {}]}
  ELSE LET c == UnitTestCases[n]
       IN {[actuals |-> before.actuals \o <<v.actual>>,
            fails   |-> before.fails \cup v.fails,
            ub      |-> before.ub \cup v.ub] :
              before \in unit_test(n - 1),
              v \in validateTouch(n, c.p, c.expected, c.o)}

UnitTest ==
  /\ \E out \in unit_test(Len(UnitTestCases)) :
       call' = [OtherCall("unit_test") EXCEPT
                  !.fails = out.fails, !.actuals = out.actuals, !.ub = out.ub]
  /\ UNCHANGED <<config, statics, screen, hist, pins>>

----------------------------------------------------------------------------
(* The driver: one instance, called from the caller's loop *)

Init ==
  /\ _width = DefaultWidth
  /\ _height = DefaultHeight
  /\ _x_min_ohms = DefaultXMinOhms
  /\ _x_max_ohms = DefaultXMaxOhms
  /\ _y_min_ohms = DefaultYMinOhms
  /\ _y_max_ohms = DefaultYMaxOhms
  /\ _start_touch_pressure = DefaultStartTouchPressure
  /\ _stop_touch_pressure = DefaultStopTouchPressure
  /\ _rx = ToUint8(ConstructorRx)
  /\ button_state = FALSE
  /\ gTouching = FALSE
  /\ screen = ScreenPoint(0, 0, 0)
  /\ call = OtherCall("constructor")
  /\ hist = HistInit
  /\ pins = PinsAtReset

Next ==
  \/ NewScreenTap
  \/ SetResistanceRange
  \/ SetScreenSize
  \/ SetThreshhold
  \/ UnitTest

Spec == Init /\ [][Next]_vars

----------------------------------------------------------------------------
(* The Coordinate Mapper on its own: mapTouchToScreen() applied to samples  *)
(* of the whole int16_t range, under the calibrations and screen sizes the  *)
(* setters accept                                                           *)

\* <<min, max>> arguments of setResistanceRange() for one axis: the
\* defaults, a one-ohm range, an empty range, the whole uint16_t range
MapOhmRanges == {<<100, 900>>, <<0, 1>>, <<100, 100>>, <<0, 65535>>}

\* arguments of setScreenSize()
MapScreenSizes == {<<320, 240>>, <<0, 0>>, <<32767, 32767>>, <<65535, 65535>>}

\* <<x, y>> of the samples handed to mapTouchToScreen()
MapSampleXY ==
  {<<-32768, -32768>>, <<-32768, 32767>>, <<0, 0>>, <<100, 900>>, <<900, 100>>,
   <<500, 500>>, <<1023, 1023>>, <<32767, 32767>>}

\* z of the samples handed to mapTouchToScreen()
MapSampleZ == {0, 900}

MapInit ==
  /\ \E xr, yr \in MapOhmRanges :
       /\ _x_min_ohms = xr[1]
       /\ _x_max_ohms = xr[2]
       /\ _y_min_ohms = yr[1]
       /\ _y_max_ohms = yr[2]
  /\ \E sz \in MapScreenSizes :
       /\ _width = sz[1]
       /\ _height = sz[2]
  /\ _start_touch_pressure = DefaultStartTouchPressure
  /\ _stop_touch_pressure = DefaultStopTouchPressure
  /\ _rx = ToUint8(ConstructorRx)
  /\ button_state = FALSE
  /\ gTouching = FALSE
  /\ screen = ScreenPoint(0, 0, 0)
  /\ call = OtherCall("constructor")
  /\ hist = HistInit
  /\ pins = PinsAtReset

\* mapTouchToScreen(touchOhms, &screen, orientation)
MapTouchToScreen ==
  \E xy \in MapSampleXY, z \in MapSampleZ, orientation \in Orientations :
    LET touchOhms == PressPoint(xy[1], xy[2], z)
    IN \E m \in mapTouchToScreen(touchOhms, orientation) :
         /\ screen' = ScreenPoint(m.x, m.y, m.z)
         /\ call' = [OtherCall("mapTouchToScreen") EXCEPT
                       !.orientation = orientation, !.touchOhms = touchOhms,
                       !.wrote = TRUE, !.ub = m.ub]
         /\ UNCHANGED <<config, statics, hist, pins>>

\* mapTouchToScreen() applied to the samples at the extremes of the current
\* calibration, as unit_test() does for the default one; an extreme above
\* 32767 is no value of a PressPoint field
MapCorner ==
  \E cx \in {_x_min_ohms, _x_max_ohms}, cy \in {_y_min_ohms, _y_max_ohms},
     z \in MapSampleZ, orientation \in {1, 3} :
    /\ cx <= Int16Max
    /\ cy <= Int16Max
    /\ LET touchOhms == PressPoint(cx, cy, z)
       IN \E m \in mapTouchToScreen(touchOhms, orientation) :
            /\ screen' = ScreenPoint(m.x, m.y, m.z)
            /\ call' = [OtherCall("mapTouchToScreen") EXCEPT
                          !.orientation = orientation, !.touchOhms = touchOhms,
                          !.wrote = TRUE, !.ub = m.ub]
            /\ UNCHANGED <<config, statics, hist, pins>>

MapNext ==
  \/ MapTouchToScreen
  \/ MapCorner

MapSpec == MapInit /\ [][MapNext]_vars

----------------------------------------------------------------------------
(* Two drivers: a second instance on other pins, constructed like the first *)
(* and, like the first, never reconfigured, so that the fields of both hold *)
(* the defaults. button_state and gTouching are static locals of the member *)
(* functions: one object each, whichever instance makes the call. The pins  *)
(* of the second instance are not part of the state.                        *)

\* newScreenTap(&screen, orientation) called on the second instance; the
\* observation also holds what the call would have found and returned had
\* the instance's own calls alone set the touch state (ownWas, ownResult)
PeerTapWith(orientation, z1, z2, ax, ay, z1b, z2b) ==
  \E out \in newScreenTap(gTouching, button_state, screen, orientation,
                          z1, z2, ax, ay, z1b, z2b) :
    LET own == CHOOSE o \in newScreenTap(hist.peerOwn, hist.peerOwn, screen,
                                         orientation, z1, z2, ax, ay, z1b, z2b) : TRUE
    IN /\ gTouching' = out.gTouching
       /\ button_state' = out.button_state
       /\ screen' = out.screen
       /\ call' = [op |-> "peer.newScreenTap",
                   orientation |-> IF out.result THEN orientation ELSE 0,
                   result |-> out.result, wasTouching |-> gTouching,
                   wrote |-> out.wrote, pres_val |-> out.pres_val,
                   touchOhms |-> out.touchOhms, reads |-> out.reads,
                   ub |-> out.ub, fails |-> {}, actuals |-> <<>>,
                   ownWas |-> hist.peerOwn, ownResult |-> own.result]
       /\ hist' = [hist EXCEPT !.peerOwn = own.gTouching]
       /\ UNCHANGED <<config, pins>>

PeerTapQuiet(orientation, z1, z2) ==
  /\ \A out \in newScreenTap(gTouching, button_state, screen, orientation,
                             z1, z2, 0, 0, 0, 0) : ~out.result
  /\ PeerTapWith(orientation, z1, z2, 0, 0, 0, 0)

PeerTapEvent(orientation, z1, z2) ==
  /\ \E out \in newScreenTap(gTouching, button_state, screen, orientation,
                             z1, z2, 0, 0, 0, 0) : out.result
  /\ \E a \in AxisReadings : \E zb \in ZReadings :
       PeerTapWith(orientation, z1, z2, a[1], a[2], zb[1], zb[2])

PeerNewScreenTap ==
  \E orientation \in Orientations : \E z \in PressureReadings :
    PeerTapQuiet(orientation, z[1], z[2]) \/ PeerTapEvent(orientation, z[1], z[2])

DuoNext ==
  \/ NewScreenTap
  \/ PeerNewScreenTap

DuoSpec == Init /\ [][DuoNext]_vars

----------------------------------------------------------------------------
(* The Touch Sampler on its own: the three measurements and getPoint()      *)
(* applied to analog readings of the whole range of the converter           *)

\* values of analogRead()
SamplerAnalog == {0, 100, 523, 1023}

\* <<analogRead(X-), analogRead(Y+)>> of the pressure samples of getPoint()
GetPointReadings == {<<0, 1023>>, <<100, 523>>, <<0, 0>>, <<523, 0>>, <<1023, 0>>}

RECURSIVE insert_inner(_, _, _)
\* the inner loop of insert_sort(), entered with j and save:
\*   for (; j >= 1 && save < array[j - 1]; j--) array[j] = array[j - 1];
\*   array[j] = save;
insert_inner(array, j, save) ==
  IF j >= 1 /\ save < array[j - 1]
  THEN insert_inner([array EXCEPT ![j] = array[j - 1]], j - 1, save)
  ELSE [array EXCEPT ![j] = save]

RECURSIVE insert_outer(_, _, _)
\* the outer loop of insert_sort(), entered with i:
\*   for (; i < size; i++) { save = array[i]; j = i; ... }
insert_outer(array, i, size) ==
  IF i < size
  THEN insert_outer(insert_inner(array, i, array[i]), i + 1, size)
  ELSE array

\* insert_sort(array, size) on an array indexed from 0
insert_sort(array, size) == insert_outer(array, 1, size)

\* analog reads of getPoint(), in order
GetPointReads ==
  TouchXReads \o TouchYReads \o PressureReads \o PressureReads \o PressureReads

\* getPoint() taking the median without sorting
getPoint_noSort(ax, ay, zs) ==
  LET p == [k \in 0..2 |-> pressure(zs[k + 1][1], zs[k + 1][2])]
  IN [ret |-> PressPoint(ToInt16(readTouchX(ax)), ToInt16(readTouchY(ay)),
                         ToInt16(p[1])),
      samples |-> p, sorted |-> p, reads |-> GetPointReads]

\* getPoint(): ax and ay are the readings of readTouchX() and readTouchY(),
\* zs the three pairs of readings of pressure(); the TSPoint returned, the
\* array p before and after insert_sort(), and the pins read
getPoint(ax, ay, zs) ==
  LET p == [k \in 0..2 |-> pressure(zs[k + 1][1], zs[k + 1][2])]
      sorted == insert_sort(p, 3)
  IN [ret |-> PressPoint(ToInt16(readTouchX(ax)), ToInt16(readTouchY(ay)),
                         ToInt16(sorted[1])),
      samples |-> p, sorted |-> sorted, reads |-> GetPointReads]

\* the observation of one measurement: the readings consumed (analog), the
\* pins read (reads), the value returned (ret), the pin state at entry
\* (entry) and at each analog read (atRead)
SamplerCall(name, analog, reads, ret, entry, atRead) ==
  [op |-> name, analog |-> analog, reads |-> reads, ret |-> ret,
   entry |-> entry, atRead |-> atRead]

ReadTouchX ==
  /\ \E a \in SamplerAnalog :
       call' = SamplerCall("readTouchX", <<a>>, TouchXReads, readTouchX(a),
                           pins, <<readTouchXPins(pins)>>)
  /\ pins' = readTouchXPins(pins)
  /\ UNCHANGED <<config, statics, screen, hist>>

ReadTouchY ==
  /\ \E a \in SamplerAnalog :
       call' = SamplerCall("readTouchY", <<a>>, TouchYReads, readTouchY(a),
                           pins, <<readTouchYPins(pins)>>)
  /\ pins' = readTouchYPins(pins)
  /\ UNCHANGED <<config, statics, screen, hist>>

Pressure ==
  /\ \E z1, z2 \in SamplerAnalog :
       call' = SamplerCall("pressure", <<z1, z2>>, PressureReads, pressure(z1, z2),
                           pins, <<pressurePins(pins), pressurePins(pins)>>)
  /\ pins' = pressurePins(pins)
  /\ UNCHANGED <<config, statics, screen, hist>>

GetPoint ==
  LET px == readTouchXPins(pins)
      py == readTouchYPins(px)
      pa == pressurePins(py)
      pb == pressurePins(pa)
      pc == pressurePins(pb)
  IN /\ \E a \in AxisReadings : \E za, zb, zc \in GetPointReadings :
          LET out == getPoint(a[1], a[2], <<za, zb, zc>>)
          IN call' = [op |-> "getPoint",
                      analog |-> <<a[1], a[2]>> \o za \o zb \o zc,
                      reads |-> out.reads, ret |-> out.ret,
                      samples |-> out.samples, sorted |-> out.sorted,
                      entry |-> pins,
                      atRead |-> <<px, py, pa, pa, pb, pb, pc, pc>>]
     /\ pins' = pc
     /\ UNCHANGED <<config, statics, screen, hist>>

SamplerNext ==
  \/ ReadTouchX
  \/ ReadTouchY
  \/ Pressure
  \/ GetPoint

SamplerSpec == Init /\ [][SamplerNext]_vars

----------------------------------------------------------------------------
(* Claims about the Touch State Machine, checked under Spec *)

\* the last operation was a newScreenTap() call
IsTap == call.op = "newScreenTap"

\* the step is a newScreenTap() call (in an action formula)
TapStep == call'.op = "newScreenTap"

\* C1, as claimed: newScreenTap returns true at most once during any run of
\* consecutive calls whose samples are all > startPressure.
C1_OncePerRun == hist.runTrues <= 1

\* C1, amended: a call returns true only if, since the last call that
\* returned true, some call sampled a pressure < stopPressure; and a run of
\* consecutive calls whose samples are all > startPressure, each made with
\* startPressure >= stopPressure, holds at most one call that returns true.
C1_EdgeOnce ==
  [][/\ (TapStep /\ call'.result /\ hist.trues > 0) => hist.lowSince
     /\ hist'.runOrdered => hist'.runTrues <= 1]_vars

\* C1 witness: a second touch, reported after a release, is being held: the
\* call sampled a pressure > startPressure and returned false.
C1_Witness ==
  /\ IsTap
  /\ call.wasTouching
  /\ ~call.result
  /\ gTouching
  /\ call.pres_val > _start_touch_pressure
  /\ hist.trues >= 2
  /\ hist.runOrdered
  /\ hist.runTrues = 1

\* C2: with startPressure >= stopPressure, a call made in IDLE whose sample
\* is > startPressure returns true and leaves the state PRESSED; the state
\* is IDLE until the first call.
C2_ReportedAtOnce ==
  /\ (call.op = "constructor" => ~gTouching)
  /\ (/\ IsTap
      /\ ~call.wasTouching
      /\ _start_touch_pressure >= _stop_touch_pressure
      /\ call.pres_val > _start_touch_pressure)
     => (call.result /\ gTouching)

\* C2 witness: a touch was reported by the call that first observed it.
C2_Witness ==
  /\ IsTap
  /\ ~call.wasTouching
  /\ _start_touch_pressure >= _stop_touch_pressure
  /\ call.pres_val > _start_touch_pressure
  /\ call.result

\* C3: a call made in PRESSED whose sample is < stopPressure leaves the
\* state IDLE and returns false, and a call that follows one that returned
\* true returns false.
C3_ReleaseSilent ==
  [][TapStep =>
       /\ (gTouching /\ call'.pres_val < _stop_touch_pressure)
            => (~gTouching' /\ ~call'.result)
       /\ hist.lastResult => ~call'.result]_vars

\* C3 witness: a reported touch was released by a call that sampled a
\* pressure < stopPressure and returned false.
C3_Witness ==
  /\ IsTap
  /\ call.wasTouching
  /\ call.pres_val < _stop_touch_pressure
  /\ ~gTouching
  /\ ~hist.lastResult
  /\ hist.trues > 0
  /\ hist.lowSince

\* C4: a call in IDLE whose sample is <= startPressure leaves the state IDLE
\* and returns false; a call in PRESSED whose sample is >= stopPressure
\* leaves the state PRESSED and returns false.
C4_DeadBand ==
  IsTap =>
    /\ (~call.wasTouching /\ call.pres_val <= _start_touch_pressure)
         => (~gTouching /\ ~call.result)
    /\ (call.wasTouching /\ call.pres_val >= _stop_touch_pressure)
         => (gTouching /\ ~call.result)

\* C4 witness: a call in PRESSED sampled exactly stopPressure, below
\* startPressure, and the state stayed PRESSED.
C4_Witness ==
  /\ IsTap
  /\ call.wasTouching
  /\ call.pres_val = _stop_touch_pressure
  /\ call.pres_val < _start_touch_pressure
  /\ gTouching

\* C5: a call assigns the caller's ScreenPoint exactly when it returns true,
\* a call that returns false leaves x, y and z as they were, and X and Y
\* are sampled only by the call that takes the state from IDLE to PRESSED.
C5_PointFrame ==
  [][TapStep =>
       /\ call'.wrote <=> call'.result
       /\ ~call'.result => screen' = screen
       /\ (Len(call'.reads) > Len(PressureReads))
            <=> (call'.result /\ ~gTouching /\ gTouching')]_vars

\* C5 witness: a call returned false while the touch was held, and the point
\* delivered with the touch is still in the caller's ScreenPoint.
C5_Witness ==
  /\ IsTap
  /\ call.wasTouching
  /\ ~call.result
  /\ gTouching
  /\ screen.z # 0
  /\ screen # ScreenPoint(0, 0, 0)

----------------------------------------------------------------------------
(* Claims about the Coordinate Mapper, checked under MapSpec (C8: Spec) *)

\* the last operation was mapTouchToScreen() in a landscape orientation
MapLandscape == call.op = "mapTouchToScreen" /\ call.orientation \in {1, 3}

\* min < max on both axes
WellCalibrated == _x_min_ohms < _x_max_ohms /\ _y_min_ohms < _y_max_ohms

\* width and height are values a ScreenPoint can hold
SizeFitsPoint == _width <= Int16Max /\ _height <= Int16Max

\* C6: for orientation 1 and 3, every sample, every calibration with
\* min < max on both axes and every screen size a ScreenPoint can hold,
\* 0 <= screen.x <= width and 0 <= screen.y <= height.
C6_InBounds ==
  (MapLandscape /\ WellCalibrated /\ SizeFitsPoint)
    => (/\ 0 <= screen.x /\ screen.x <= _width
        /\ 0 <= screen.y /\ screen.y <= _height)

\* C6 witness: a sample at the ends of the int16_t range, whose rescaled
\* value overflows the long on one axis, was mapped into a screen of the
\* largest size.
C6_Witness ==
  /\ MapLandscape
  /\ WellCalibrated
  /\ SizeFitsPoint
  /\ _width = Int16Max
  /\ call.touchOhms.x = Int16Min
  /\ call.touchOhms.y = Int16Max
  /\ "overflow" \in call.ub
  /\ screen.x > 0

\* floor(a * w / d) for 0 <= a < d < 2^16 and 0 <= w < 2^16, by parts
ExactQuot(a, w, d) ==
  LET r == w % d
      t == (a \div 256) * r
  IN a * (w \div d) + 256 * (t \div d)
       + ((256 * (t % d) + (a % 256) * r) \div d)

\* linear-rescale(v; inMin -> inMax => 0 -> outMax) with truncating
\* division, computed exactly and then saturated to [0, outMax]
SatRescale(v, inMin, inMax, outMax) ==
  LET d1  == v - inMin
      den == inMax - inMin
  IN IF d1 = 0 \/ outMax = 0 THEN 0
     ELSE IF (d1 < 0) # (den < 0) THEN 0
     ELSE IF Abs(d1) >= Abs(den) THEN outMax
     ELSE ExactQuot(Abs(d1), outMax, Abs(den))

\* C7, as claimed: for orientation 1 and 3, every sample with x, y in
\* 0..1023 and every calibration with min < max on both axes, screen.x and
\* screen.y are the exact linear-rescale of the table saturated to
\* [0, width] and [0, height] (for the screen sizes a ScreenPoint can hold).
C7_Saturates ==
  (/\ MapLandscape
   /\ WellCalibrated
   /\ SizeFitsPoint
   /\ call.touchOhms.x \in 0..1023
   /\ call.touchOhms.y \in 0..1023)
    => IF call.orientation = 1
       THEN /\ screen.x = SatRescale(call.touchOhms.y, _y_min_ohms, _y_max_ohms, _width)
            /\ screen.y = SatRescale(call.touchOhms.x, _x_max_ohms, _x_min_ohms, _height)
       ELSE /\ screen.x = SatRescale(call.touchOhms.y, _x_max_ohms, _x_min_ohms, _width)
            /\ screen.y = SatRescale(call.touchOhms.x, _y_min_ohms, _y_max_ohms, _height)

\* the configuration that decides the mapping is the default one
DefaultMapping ==
  /\ _width = DefaultWidth
  /\ _height = DefaultHeight
  /\ _x_min_ohms = DefaultXMinOhms
  /\ _x_max_ohms = DefaultXMaxOhms
  /\ _y_min_ohms = DefaultYMinOhms
  /\ _y_max_ohms = DefaultYMaxOhms

\* C8: under the default configuration unit_test reports no mismatch: the
\* nine resistances map to (0,240), (320,240), (0,0), (320,0), (160,120) in
\* orientation 1 and to (320,0), (0,0), (320,240), (0,240) in orientation 3.
C8_UnitTestPasses ==
  (call.op = "unit_test" /\ DefaultMapping)
    => /\ call.fails = {}
       /\ [i \in 1..Len(call.actuals) |-> <<call.actuals[i].x, call.actuals[i].y>>]
            = << <<0, 240>>, <<320, 240>>, <<0, 0>>, <<320, 0>>, <<160, 120>>,
                 <<320, 0>>, <<0, 0>>, <<320, 240>>, <<0, 240>> >>

\* C8 witness: unit_test has run under the default configuration.
C8_Witness ==
  /\ call.op = "unit_test"
  /\ DefaultMapping
  /\ Len(call.actuals) = Len(UnitTestCases)
  /\ call.ub = {}

\* C9, as claimed: with xMinOhms = xMaxOhms or yMinOhms = yMaxOhms,
\* mapTouchToScreen (orientation 1 or 3) returns a point without dividing
\* by zero.
C9_NoDivisionByZero ==
  (MapLandscape /\ (_x_min_ohms = _x_max_ohms \/ _y_min_ohms = _y_max_ohms))
    => "divzero" \notin call.ub

----------------------------------------------------------------------------
(* Claims about the cost of a call, checked under Spec *)

\* C10: every newScreenTap call ends after a number of analog reads fixed
\* by its outcome alone, whatever the samples, the state and the
\* orientation: two when it reports no new touch, six when it reports one.
C10_BoundedReads ==
  IsTap => Len(call.reads) = (IF call.result THEN 6 ELSE 2)

\* C10 witness: a new touch was reported under an orientation other than 1
\* and 3, after six reads.
C10_Witness ==
  /\ IsTap
  /\ call.result
  /\ call.orientation \notin {1, 3}
  /\ Len(call.reads) = 6

----------------------------------------------------------------------------
(* Claims about the samples a call takes, checked under Spec *)

\* the pressure() calls among the analog reads of one newScreenTap call:
\* pressure() alone reads X- and then Y+ (readTouchY, the only other reader
\* of X-, is followed by the X- read of the next pressure())
PressureSamples(reads) ==
  Cardinality({i \in 1..(Len(reads) - 1) :
                 <<reads[i], reads[i + 1]>> = PressureReads})

\* C11, as claimed: every newScreenTap call takes exactly one pressure
\* sample, whatever the state at entry and whatever the outcome, the call
\* that reports a new touch included.
C11_OneSample ==
  IsTap => PressureSamples(call.reads) = 1

\* C17, as claimed: the z delivered with a new-touch event is the pressure
\* value that caused the transition in that call, hence greater than the
\* start threshold.
C17_TransitionPressure ==
  (IsTap /\ call.result)
    => /\ screen.z = call.pres_val
       /\ screen.z > _start_touch_pressure

----------------------------------------------------------------------------
(* Claims about the configuration, checked under Spec *)

\* C13, as claimed: after setResistanceRange(xMin, xMax, yMin, yMax, r) the
\* reference resistance stored in the driver equals r.
C13_RxRetained ==
  (call.op = "setResistanceRange")
    => \E c \in CalibrationChoices :
         /\ <<_x_min_ohms, _x_max_ohms, _y_min_ohms, _y_max_ohms>>
              = <<c[1], c[2], c[3], c[4]>>
         /\ _rx = c[5]

----------------------------------------------------------------------------
(* Claims about two instances, checked under DuoSpec *)

\* C12, as claimed: the touch state is owned by one instance; calls of
\* newScreenTap on the first instance leave the state of the second
\* unchanged, so that every call on the second finds the state its own calls
\* left and returns what its own calls and samples determine.
C12_PeerIsolated ==
  (call.op = "peer.newScreenTap")
    => /\ call.wasTouching = call.ownWas
       /\ call.result = call.ownResult

----------------------------------------------------------------------------
(* Further claims about the Coordinate Mapper, checked under MapSpec *)

MapCall == call.op = "mapTouchToScreen"

\* C15: for every orientation value other than 1 and 3, every sample and
\* every screen size, width = 0 and height = 0 included, mapTouchToScreen
\* returns a point with 0 <= screen.x <= width and 0 <= screen.y <= height.
C15_DefaultInBounds ==
  (MapCall /\ call.orientation \notin {1, 3})
    => (/\ 0 <= screen.x /\ screen.x <= _width
        /\ 0 <= screen.y /\ screen.y <= _height)

\* C15 witness: a sample was mapped under orientation 2 into a screen of
\* width 0 and height 0.
C15_Witness ==
  /\ MapCall
  /\ call.orientation = 2
  /\ _width = 0
  /\ _height = 0
  /\ screen.x = 0
  /\ screen.y = 0

\* C16: for every orientation value and every sample, screen.z after
\* mapTouchToScreen equals the z of the sample, whatever the clamping did to
\* x and y.
C16_PressurePassedThrough ==
  MapCall => screen.z = call.touchOhms.z

\* C16 witness: a sample with a z above width and height was mapped under
\* orientation 1, its x clamped to the width.
C16_Witness ==
  /\ MapLandscape
  /\ call.orientation = 1
  /\ _width = DefaultWidth
  /\ _height = DefaultHeight
  /\ call.touchOhms.y = Int16Max
  /\ call.touchOhms.z = 900
  /\ screen.x = _width
  /\ screen.z = 900

\* the sample of the last mapTouchToScreen call lies at extremes of the
\* calibration on both axes
AtCorner ==
  /\ call.touchOhms.x \in {_x_min_ohms, _x_max_ohms}
  /\ call.touchOhms.y \in {_y_min_ohms, _y_max_ohms}

\* the corner unit_test() expects for a sample at calibration extremes
ExpectedCorner(touchOhms, orientation) ==
  IF orientation = 1
  THEN [x |-> IF touchOhms.y = _y_min_ohms THEN 0 ELSE _width,
        y |-> IF touchOhms.x = _x_min_ohms THEN _height ELSE 0]
  ELSE [x |-> IF touchOhms.y = _y_min_ohms THEN _width ELSE 0,
        y |-> IF touchOhms.x = _x_min_ohms THEN 0 ELSE _height]

\* C18, as claimed: for every calibration with min < max on both axes (the
\* two ranges not necessarily equal) and every screen size, the four samples
\* at the calibration extremes map to the four screen corners, in
\* orientation 1 and, point-reflected, in orientation 3. Stated for the
\* screen sizes a ScreenPoint can hold and for calls that execute no
\* undefined operation, where C7 and C9 play no part.
C18_Corners ==
  (MapLandscape /\ WellCalibrated /\ SizeFitsPoint /\ AtCorner /\ call.ub = {})
    => /\ screen.x = ExpectedCorner(call.touchOhms, call.orientation).x
       /\ screen.y = ExpectedCorner(call.touchOhms, call.orientation).y

----------------------------------------------------------------------------
(* Claims about the Touch Sampler, checked under SamplerSpec *)

Measured(name) == call.op = name

\* C14, as claimed: for analog readings in 0..1023, the values returned by
\* readTouchX, readTouchY and pressure each lie in 0..1023.
C14_TenBitRange ==
  (Measured("readTouchX") \/ Measured("readTouchY") \/ Measured("pressure"))
    => call.ret \in 0..1023

\* C14, amended: for analog readings in 0..1023, the values returned by
\* readTouchX and readTouchY lie in 0..1023 and the value returned by
\* pressure lies in 0..2046.
C14_MeasurementRange ==
  /\ (Measured("readTouchX") \/ Measured("readTouchY")) => call.ret \in 0..1023
  /\ Measured("pressure") => call.ret \in 0..2046

\* C14 witness: pressure() has returned 2046, from the readings X- = 1023
\* and Y+ = 0.
C14_Witness ==
  /\ Measured("pressure")
  /\ call.analog = <<1023, 0>>
  /\ call.ret = 2046

\* C19, as claimed: pressure() returns the average of its two readings,
\* (z1 + z2) / 2 for z1 read on X- and z2 on Y+.
C19_Average ==
  Measured("pressure") => call.ret = (call.analog[1] + call.analog[2]) \div 2

\* C19, amended: for readings z1 (X-) and z2 (Y+) in 0..1023, pressure()
\* returns 1023 - (z2 - z1).
C19_InvertedDifference ==
  Measured("pressure") => call.ret + call.analog[2] = 1023 + call.analog[1]

\* C19 witness: pressure() has returned 600 from the readings 100 and 523,
\* whose average is 311.
C19_Witness ==
  /\ Measured("pressure")
  /\ call.analog = <<100, 523>>
  /\ call.ret = 600

\* the indices of array whose element satisfies Test
Among(array, Test(_)) == {k \in DOMAIN array : Test(array[k])}

\* m is the middle one of the three elements of array
IsMedian(m, array) ==
  LET AtMost(v) == v <= m
      AtLeast(v) == v >= m
      Same(v) == v = m
  IN /\ Cardinality(Among(array, Same)) >= 1
     /\ Cardinality(Among(array, AtMost)) >= 2
     /\ Cardinality(Among(array, AtLeast)) >= 2

\* b holds the elements of a, each as many times
IsPermutation(a, b) ==
  /\ DOMAIN a = DOMAIN b
  /\ \A k \in DOMAIN a :
       LET Same(v) == v = a[k]
       IN Cardinality(Among(a, Same)) = Cardinality(Among(b, Same))

\* C20: getPoint takes exactly three pressure samples and returns their
\* median as z, whatever their order and with or without duplicates, and
\* insert_sort leaves the array an ascending permutation of its input.
C20_Median ==
  Measured("getPoint")
    => /\ PressureSamples(call.reads) = 3
       /\ DOMAIN call.samples = 0..2
       /\ IsMedian(call.ret.z, call.samples)
       /\ IsPermutation(call.samples, call.sorted)
       /\ call.sorted[0] <= call.sorted[1]
       /\ call.sorted[1] <= call.sorted[2]

\* C20 witness: getPoint() has sampled three different pressures in
\* descending order and returned the second.
C20_Witness ==
  /\ Measured("getPoint")
  /\ call.samples[0] > call.samples[1]
  /\ call.samples[1] > call.samples[2]
  /\ call.ret.z = call.samples[1]
  /\ call.sorted[0] = call.samples[2]

----------------------------------------------------------------------------
(* Claims about the touch state and the configuration, checked under Spec *)

\* C23: the two persistent flags, button_state of isTouching and gTouching
\* of newScreenTap, are equal after every newScreenTap call, for every
\* sequence of calls, samples and threshold settings, stop > start included.
C23_OneFlag ==
  IsTap => button_state = gTouching

\* C23 witness: with stop > start, a call found the touch reported earlier
\* and cleared both flags on a sample above the start threshold.
C23_Witness ==
  /\ IsTap
  /\ _stop_touch_pressure > _start_touch_pressure
  /\ call.wasTouching
  /\ call.pres_val > _start_touch_pressure
  /\ ~gTouching
  /\ ~button_state

\* C24: with stop > start, a call in IDLE whose sample p satisfies
\* start < p < stop reports no event and leaves the state IDLE; a call
\* reports an event only when p > start and p >= stop; and no call returns
\* true while leaving the state IDLE.
C24_MisorderedBand ==
  /\ (/\ IsTap
      /\ ~call.wasTouching
      /\ _start_touch_pressure < call.pres_val
      /\ call.pres_val < _stop_touch_pressure)
       => (~call.result /\ ~gTouching /\ ~button_state)
  /\ (IsTap /\ call.result)
       => /\ ~call.wasTouching
          /\ call.pres_val > _start_touch_pressure
          /\ call.pres_val >= _stop_touch_pressure
          /\ gTouching

\* C24 witness: with the thresholds 50 (start) and 200 (stop), a call in
\* IDLE sampled 100, returned false and left the state IDLE.
C24_Witness ==
  /\ IsTap
  /\ _start_touch_pressure = 50
  /\ _stop_touch_pressure = 200
  /\ ~call.wasTouching
  /\ call.pres_val = 100
  /\ ~call.result
  /\ ~gTouching

\* the configuration fields each setter names
sizeFields == <<_width, _height>>
ohmFields == <<_x_min_ohms, _x_max_ohms, _y_min_ohms, _y_max_ohms, _rx>>
thresholdFields == <<_start_touch_pressure, _stop_touch_pressure>>

\* C22: setResistanceRange, setScreenSize, setThreshhold and unit_test leave
\* the IDLE/PRESSED state unchanged; setScreenSize changes only width and
\* height, setThreshhold only the two thresholds, setResistanceRange only
\* the ohm bounds and the reference resistance; and the operations that run
\* mapTouchToScreen (newScreenTap, unit_test) change no configuration.
C22_Frame ==
  [][/\ (call'.op \in {"setResistanceRange", "setScreenSize", "setThreshhold",
                       "unit_test"})
          => UNCHANGED statics
     /\ (call'.op = "setScreenSize") => UNCHANGED <<ohmFields, thresholdFields>>
     /\ (call'.op = "setThreshhold") => UNCHANGED <<sizeFields, ohmFields>>
     /\ (call'.op = "setResistanceRange") => UNCHANGED <<sizeFields, thresholdFields>>
     /\ (call'.op \in {"newScreenTap", "unit_test"}) => UNCHANGED config]_vars

\* C22 witness: setScreenSize was called during a touch, after the
\* thresholds and the ohm bounds had been set; the touch and those settings
\* are still there.
C22_Witness ==
  /\ call.op = "setScreenSize"
  /\ _width = 480
  /\ gTouching
  /\ button_state
  /\ _start_touch_pressure = 50
  /\ _x_min_ohms = 160

----------------------------------------------------------------------------
(* Claims about the pins, checked under SamplerSpec *)

\* the configuration of the four pins for each measurement
XAxisPins ==
  [XP |-> Pin("OUTPUT", "HIGH"), XM |-> Pin("OUTPUT", "LOW"),
   YP |-> Pin("INPUT", "LOW"),   YM |-> Pin("INPUT", "LOW")]
YAxisPins ==
  [YP |-> Pin("OUTPUT", "HIGH"), YM |-> Pin("OUTPUT", "LOW"),
   XP |-> Pin("INPUT", "LOW"),   XM |-> Pin("INPUT", "LOW")]
ZAxisPins ==
  [XP |-> Pin("OUTPUT", "LOW"), YM |-> Pin("OUTPUT", "HIGH"),
   XM |-> Pin("INPUT", "LOW"),  YP |-> Pin("INPUT", "LOW")]

\* C21: at each analog read the four pins are in the configuration of the
\* measurement, whatever pin state earlier measurements left: in readTouchX
\* Y+ and Y- inputs written low, X+ output high, X- output low, reading Y+;
\* in readTouchY the symmetric configuration, reading X-; in pressure X+
\* output low, Y- output high, X- and Y+ inputs written low.
C21_PinsAtRead ==
  /\ Measured("readTouchX")
       => (call.atRead = <<XAxisPins>> /\ call.reads = <<"YP">>)
  /\ Measured("readTouchY")
       => (call.atRead = <<YAxisPins>> /\ call.reads = <<"XM">>)
  /\ Measured("pressure")
       => (call.atRead = <<ZAxisPins, ZAxisPins>> /\ call.reads = <<"XM", "YP">>)
  /\ Measured("getPoint")
       => call.atRead = <<XAxisPins, YAxisPins, ZAxisPins, ZAxisPins,
                          ZAxisPins, ZAxisPins, ZAxisPins, ZAxisPins>>

\* C21 witness: pressure() was entered with the pins as readTouchY() leaves
\* them, Y+ an output driven high, and took its two readings.
C21_Witness ==
  /\ Measured("pressure")
  /\ call.entry = YAxisPins
  /\ Len(call.atRead) = 2
  /\ pins = ZAxisPins

====
